---- MODULE Spec2Model ----
(***************************************************************************)
(* UUID Refresher (src/app.py): a JSON document is uploaded, every UUID    *)
(* token inside its string values is replaced by a value fetched from a    *)
(* remote generator, and the (original, replacement) pairs are kept in a   *)
(* session-scoped mapping log.                                             *)
(*                                                                         *)
(* Strings are sequences of one-character strings, so that the regular     *)
(* expression, re.sub and json.dumps are modelled character by character.  *)
(* A JSON value is a record [kind, s, n, keys, items]:                     *)
(*   kind = "str"   s     the characters                                   *)
(*   kind = "num"   n     the integer                                      *)
(*   kind = "bool"  n     1 for true, 0 for false                          *)
(*   kind = "null"                                                         *)
(*   kind = "dict"  keys, items   the keys and their values, in order      *)
(*   kind = "list"  items         the elements, in order                   *)
(***************************************************************************)
EXTENDS Integers, Sequences, FiniteSets, TLC

VARIABLES
    pc,                  \* position of the script / of the call under study
    json_data,           \* the uploaded, parsed document (NoValue: no file)
    num_uuids,           \* app.py:86
    question_counts,     \* app.py:90
    total_uuids_needed,  \* get_batch_of_uuids: parameter
    chunk_size,          \* get_batch_of_uuids: parameter
    uuid_list,           \* get_batch_of_uuids: local accumulator
    uuid_batch,          \* the pool handed to replace_uuids_recursively
    uuid_mapping,        \* st.session_state.uuid_mapping / the log parameter
    modified_json_data,  \* app.py:110 (NoValue: no output document)
    requests,            \* history: batch sizes asked of the remote, this call
    fetch_failed,        \* history: a chunk of this call failed
    batch0,              \* history: the pool as it stood when the walk began
    mapping0,            \* history: the log as it stood at the Process click
    substituted,         \* history: replace_uuids_recursively ran in this run
    runs                 \* history: Process clicks so far in this session

vars == <<pc, json_data, num_uuids, question_counts, total_uuids_needed,
          chunk_size, uuid_list, uuid_batch, uuid_mapping, modified_json_data,
          requests, fetch_failed, batch0, mapping0, substituted, runs>>

----------------------------------------------------------------------------
(* Bounds of the model *)

\* longest pool handed directly to replace_uuids_recursively
MaxPool == 3
\* largest total_uuids_needed given directly to get_batch_of_uuids
MaxTotal == 4
\* largest chunk_size given directly to get_batch_of_uuids
MaxChunk == 2
\* a success response carries at most this many lines more than were asked for
MaxExtra == 1
\* requests followed within one get_batch_of_uuids call
MaxRequests == 5
\* Process clicks followed within one session
MaxRuns == 2

\* chunk_size passed by the Process handler
ProcessChunkSize == 100

----------------------------------------------------------------------------
(* Characters and strings *)

Rep(c, n) == [i \in 1..n |-> c]

RECURSIVE Concat(_)
Concat(ss) == IF ss = <<>> THEN <<>> ELSE Head(ss) \o Concat(Tail(ss))

Min(a, b) == IF a <= b THEN a ELSE b

\* one-character strings for the characters json.dumps escapes
FormFeed == "<FF>"
EAcute == "<U+00E9>"
Quote == "\""
Backslash == "\\"

\* [0-9a-fA-F]
HexChars == {"0", "1", "2", "3", "4", "5", "6", "7", "8", "9",
             "a", "b", "c", "d", "e", "f", "A", "B", "C", "D", "E", "F"}

\* uuid_pattern: the hex group lengths, joined by hyphens
UuidGroups == <<8, 4, 4, 4, 12>>

\* the pattern as one character class per position: "h" hex, "-" hyphen
uuid_pattern ==
    Rep("h", UuidGroups[1]) \o <<"-">> \o Rep("h", UuidGroups[2]) \o <<"-">>
    \o Rep("h", UuidGroups[3]) \o <<"-">> \o Rep("h", UuidGroups[4]) \o <<"-">>
    \o Rep("h", UuidGroups[5])

PatternLen == Len(uuid_pattern)

\* the pattern matches s at position i
MatchAt(s, i) ==
    /\ i + PatternLen - 1 <= Len(s)
    /\ \A j \in 1..PatternLen :
          IF uuid_pattern[j] = "h" THEN s[i + j - 1] \in HexChars
                                   ELSE s[i + j - 1] = "-"

\* uuid_pattern.findall(s): the non-overlapping matches, leftmost first
RECURSIVE FindAllFrom(_, _)
FindAllFrom(s, i) ==
    IF i + PatternLen - 1 > Len(s) THEN <<>>
    ELSE IF MatchAt(s, i)
         THEN <<SubSeq(s, i, i + PatternLen - 1)>> \o FindAllFrom(s, i + PatternLen)
         ELSE FindAllFrom(s, i + 1)

FindAll(s) == FindAllFrom(s, 1)

----------------------------------------------------------------------------
(* JSON values *)

NoValue == [kind |-> "none", s |-> <<>>, n |-> 0, keys |-> <<>>, items |-> <<>>]
Str(s) == [kind |-> "str", s |-> s, n |-> 0, keys |-> <<>>, items |-> <<>>]
Num(n) == [kind |-> "num", s |-> <<>>, n |-> n, keys |-> <<>>, items |-> <<>>]
Bool(b) == [kind |-> "bool", s |-> <<>>, n |-> IF b THEN 1 ELSE 0,
            keys |-> <<>>, items |-> <<>>]
Null == [kind |-> "null", s |-> <<>>, n |-> 0, keys |-> <<>>, items |-> <<>>]
Dict(ks, vs) == [kind |-> "dict", s |-> <<>>, n |-> 0, keys |-> ks, items |-> vs]
List(vs) == [kind |-> "list", s |-> <<>>, n |-> 0, keys |-> <<>>, items |-> vs]

----------------------------------------------------------------------------
(* replace_uuids_recursively, app.py:36-51.  Every operator returns the    *)
(* value together with the pool and the log as the call leaves them.       *)

Result(v, pool, log) == [ret |-> v, uuid_batch |-> pool, uuid_mapping |-> log]

MappingRecord(old, new) == [original |-> old, new |-> new]

\* a plausible slip: the pool is read but the entry is not removed
replacement_func_NoPop(old_uuid, pool, log) ==
    LET new_uuid == IF pool # <<>> THEN Head(pool) ELSE old_uuid
    IN  Result(new_uuid, pool, Append(log, MappingRecord(old_uuid, new_uuid)))

\* a plausible slip: a match met with the pool empty is not logged
replacement_func_NoFallbackLog(old_uuid, pool, log) ==
    IF pool # <<>>
    THEN Result(Head(pool), Tail(pool), Append(log, MappingRecord(old_uuid, Head(pool))))
    ELSE Result(old_uuid, pool, log)

\* app.py:39-43
replacement_func(old_uuid, pool, log) ==
    LET new_uuid == IF pool # <<>> THEN Head(pool) ELSE old_uuid
        rest == IF pool # <<>> THEN Tail(pool) ELSE pool
    IN  Result(new_uuid, rest, Append(log, MappingRecord(old_uuid, new_uuid)))

\* uuid_pattern.sub(replacement_func, data), app.py:45: the matches are found
\* in the original string, left to right, and each is given to replacement_func
RECURSIVE SubFrom(_, _, _, _)
SubFrom(s, i, pool, log) ==
    IF i + PatternLen - 1 > Len(s)
    THEN Result(SubSeq(s, i, Len(s)), pool, log)
    ELSE IF MatchAt(s, i)
         THEN LET r == replacement_func(SubSeq(s, i, i + PatternLen - 1), pool, log)
                  t == SubFrom(s, i + PatternLen, r.uuid_batch, r.uuid_mapping)
              IN  Result(r.ret \o t.ret, t.uuid_batch, t.uuid_mapping)
         ELSE LET t == SubFrom(s, i + 1, pool, log)
              IN  Result(<<s[i]>> \o t.ret, t.uuid_batch, t.uuid_mapping)

RECURSIVE replace_uuids_recursively(_, _, _)
RECURSIVE ReplaceItems(_, _, _)

\* the comprehensions of app.py:47 and app.py:49: the values in order, each
\* call seeing the pool and the log as the call before left them
ReplaceItems(items, pool, log) ==
    IF items = <<>> THEN Result(<<>>, pool, log)
    ELSE LET r == replace_uuids_recursively(Head(items), pool, log)
             t == ReplaceItems(Tail(items), r.uuid_batch, r.uuid_mapping)
         IN  Result(<<r.ret>> \o t.ret, t.uuid_batch, t.uuid_mapping)

\* app.py:37-45
ReplaceStr(data, pool, log) ==
    LET r == SubFrom(data.s, 1, pool, log)
    IN  Result(Str(r.ret), r.uuid_batch, r.uuid_mapping)

\* a plausible slip: the keys are substituted like the values
ReplaceDict_KeysToo(data, pool, log) ==
    LET ks == ReplaceItems([i \in 1..Len(data.keys) |-> Str(data.keys[i])], pool, log)
        r == ReplaceItems(data.items, ks.uuid_batch, ks.uuid_mapping)
    IN  Result(Dict([i \in 1..Len(data.keys) |-> ks.ret[i].s], r.ret),
               r.uuid_batch, r.uuid_mapping)

\* app.py:46-47
ReplaceDict(data, pool, log) ==
    LET r == ReplaceItems(data.items, pool, log)
    IN  Result(Dict(data.keys, r.ret), r.uuid_batch, r.uuid_mapping)

\* a plausible slip: elements left without a UUID are dropped from the list
ReplaceList_DropPlain(data, pool, log) ==
    LET r == ReplaceItems(data.items, pool, log)
        keep == SelectSeq(r.ret, LAMBDA v : v.kind # "str" \/ FindAll(v.s) # <<>>)
    IN  Result(List(keep), r.uuid_batch, r.uuid_mapping)

\* app.py:48-49
ReplaceList(data, pool, log) ==
    LET r == ReplaceItems(data.items, pool, log)
    IN  Result(List(r.ret), r.uuid_batch, r.uuid_mapping)

\* app.py:36-51
replace_uuids_recursively(data, pool, log) ==
    IF data.kind = "str" THEN ReplaceStr(data, pool, log)
    ELSE IF data.kind = "dict" THEN ReplaceDict(data, pool, log)
    ELSE IF data.kind = "list" THEN ReplaceList(data, pool, log)
    ELSE Result(data, pool, log)

----------------------------------------------------------------------------
(* count_questions, app.py:54-69.  The returned dict is the sequence of    *)
(* its (key, count) entries in insertion order.                            *)

TotalQuestions ==
    <<"T", "o", "t", "a", "l", " ", "Q", "u", "e", "s", "t", "i", "o", "n", "s">>

Entry(k, c) == [key |-> k, count |-> c]

\* app.py:56-59: one entry per key whose value is a list
RECURSIVE SubtopicCounts(_, _)
SubtopicCounts(ks, vs) ==
    IF ks = <<>> THEN <<>>
    ELSE (IF Head(vs).kind = "list"
          THEN <<Entry(Head(ks), Len(Head(vs).items))>> ELSE <<>>)
         \o SubtopicCounts(Tail(ks), Tail(vs))

\* app.py:64-66: the first value that is a list, if any
FirstListValue(vs) ==
    LET idx == {i \in 1..Len(vs) : vs[i].kind = "list"}
    IN  IF idx = {} THEN NoValue
        ELSE vs[CHOOSE i \in idx : \A j \in idx : i <= j]

\* a plausible slip: every key is counted, a non-list value as 0
count_questions_AllKeys(data) ==
    IF data.kind = "dict" /\ data.keys # <<>>
    THEN [i \in 1..Len(data.keys) |->
             Entry(data.keys[i],
                   IF data.items[i].kind = "list" THEN Len(data.items[i].items) ELSE 0)]
    ELSE IF data.kind = "list" THEN <<Entry(TotalQuestions, Len(data.items))>>
    ELSE <<Entry(TotalQuestions, 0)>>

\* app.py:54-69
count_questions(data) ==
    IF data.kind = "dict"
    THEN LET subtopic_counts == SubtopicCounts(data.keys, data.items)
         IN  IF subtopic_counts # <<>> THEN subtopic_counts
             ELSE IF FirstListValue(data.items) # NoValue
                  THEN <<Entry(TotalQuestions, Len(FirstListValue(data.items).items))>>
                  ELSE <<Entry(TotalQuestions, 0)>>
    ELSE IF data.kind = "list" THEN <<Entry(TotalQuestions, Len(data.items))>>
    ELSE <<Entry(TotalQuestions, 0)>>

----------------------------------------------------------------------------
(* json.dumps(json_data) with its defaults (ensure_ascii, ", " and ": "),  *)
(* app.py:85, and the count of pattern matches in the text, app.py:85-86.  *)

Digits == <<"0", "1", "2", "3", "4", "5", "6", "7", "8", "9">>

\* the decimal digits of a natural number
RECURSIVE NatStr(_)
NatStr(n) == IF n < 10 THEN <<Digits[n + 1]>>
             ELSE NatStr(n \div 10) \o <<Digits[(n % 10) + 1]>>

\* json.encoder.py_encode_basestring_ascii on one character
EscapeChar(c) ==
    IF c = Quote THEN <<Backslash, Quote>>
    ELSE IF c = Backslash THEN <<Backslash, Backslash>>
    ELSE IF c = FormFeed THEN <<Backslash, "f">>
    ELSE IF c = EAcute THEN <<Backslash, "u", "0", "0", "e", "9">>
    ELSE <<c>>

DumpsStr(s) == <<Quote>> \o Concat([i \in 1..Len(s) |-> EscapeChar(s[i])]) \o <<Quote>>

\* parts joined by ", "
RECURSIVE JoinComma(_)
JoinComma(parts) ==
    IF parts = <<>> THEN <<>>
    ELSE IF Len(parts) = 1 THEN Head(parts)
    ELSE Head(parts) \o <<",", " ">> \o JoinComma(Tail(parts))

RECURSIVE Dumps(_)
Dumps(v) ==
    IF v.kind = "str" THEN DumpsStr(v.s)
    ELSE IF v.kind = "num" THEN NatStr(v.n)
    ELSE IF v.kind = "bool"
         THEN (IF v.n = 1 THEN <<"t", "r", "u", "e">> ELSE <<"f", "a", "l", "s", "e">>)
    ELSE IF v.kind = "null" THEN <<"n", "u", "l", "l">>
    ELSE IF v.kind = "dict"
         THEN <<"{">>
              \o JoinComma([i \in 1..Len(v.keys) |->
                     DumpsStr(v.keys[i]) \o <<":", " ">> \o Dumps(v.items[i])])
              \o <<"}">>
    ELSE <<"[">> \o JoinComma([i \in 1..Len(v.items) |-> Dumps(v.items[i])]) \o <<"]">>

\* a plausible slip: the distinct tokens are counted, not the occurrences
CountUuids_Distinct(data) ==
    Cardinality({FindAll(Dumps(data))[i] : i \in 1..Len(FindAll(Dumps(data)))})

\* app.py:85-86
CountUuids(data) == Len(FindAll(Dumps(data)))

----------------------------------------------------------------------------
(* The inputs the model draws from *)

\* the token cccccccc-cccc-cccc-cccc-cccccccccccc
Uuid(c) == Rep(c, 8) \o <<"-">> \o Rep(c, 4) \o <<"-">> \o Rep(c, 4) \o <<"-">>
           \o Rep(c, 4) \o <<"-">> \o Rep(c, 12)

UuidA == Uuid("1")
UuidB == Uuid("2")
UuidUpper == Uuid("F")
KeyUuid == Uuid("3")
KeyK == <<"k">>
TopicA == <<"t", "o", "p", "i", "c", "A">>
TopicB == <<"t", "o", "p", "i", "c", "B">>

\* string values: no token, one token, two tokens in text, a token preceded by
\* a hex digit, a token one digit short, and two strings that hold no token but
\* whose json.dumps text does (the escape supplies the missing hex digits)
Plain == <<"x">>
TwoInOne == <<"x">> \o UuidA \o <<" ", "y">> \o UuidB
HexThenUuid == <<"1">> \o UuidA
NearMiss == Tail(UuidA)
FormFeedNearMiss == <<FormFeed>> \o Tail(UuidA)
EAcuteNearMiss == <<EAcute>> \o SubSeq(UuidA, 5, PatternLen)

Docs ==
    { Str(Plain), Str(UuidA), Str(TwoInOne), Num(7), Bool(TRUE), Null,
      List(<<>>), Dict(<<>>, <<>>),
      List(<<Str(UuidA), Str(UuidB), Str(UuidA)>>),
      List(<<Str(HexThenUuid), Str(NearMiss), Num(12)>>),
      List(<<Str(FormFeedNearMiss)>>),
      List(<<Str(UuidUpper), Str(EAcuteNearMiss)>>),
      List(<<List(<<Str(UuidA)>>), Dict(<<KeyK>>, <<Str(UuidB)>>), Null>>),
      Dict(<<TopicA, TopicB>>,
           <<List(<<Str(UuidA)>>), List(<<Str(Plain), Str(UuidB)>>)>>),
      Dict(<<KeyUuid>>, <<Str(UuidA)>>),
      Dict(<<KeyUuid, KeyK>>, <<List(<<Str(UuidB), Num(1)>>), Str(UuidA)>>),
      Dict(<<KeyK>>, <<Dict(<<TopicA>>, <<List(<<Str(UuidA)>>)>>)>>),
      Dict(<<KeyK, TopicA, TopicB>>, <<Bool(FALSE), List(<<>>), Str(TwoInOne)>>) }

\* pool entries: two fresh tokens and one equal to a token of the documents
\* (nothing in the code compares a pool entry with anything)
FreshA == Uuid("a")
FreshB == Uuid("b")
PoolValues == {FreshA, FreshB, UuidA}

SeqsUpTo(S, n) == UNION {[1..k -> S] : k \in 0..n}

\* pools handed directly to replace_uuids_recursively
Pools == SeqsUpTo(PoolValues, MaxPool)

\* logs handed directly to replace_uuids_recursively
PriorLogs == {<<>>, <<MappingRecord(UuidB, FreshB)>>}

\* the lines of a success response to a request for n values: any number of
\* lines up to n + MaxExtra (the code reads the body whatever its length);
\* what a line holds decides nothing in get_batch_of_uuids or in the handler
RemoteLines == {FreshA}
Bodies(n) == SeqsUpTo(RemoteLines, n + MaxExtra)

----------------------------------------------------------------------------
(* get_batch_of_uuids, app.py:16-33, one action per pass of its loop *)

\* app.py:20
BatchSize == Min(chunk_size, total_uuids_needed - Len(uuid_list))

\* app.py:19, the loop is entered; the model follows MaxRequests requests
LoopEntered ==
    /\ pc = "fetch_loop"
    /\ Len(uuid_list) < total_uuids_needed
    /\ Len(requests) < MaxRequests

\* a plausible slip: what was fetched before the failure is returned
FailureResult_Partial(list) == list

\* app.py:28 and app.py:31: return []
FailureResult(list) == <<>>

FetchUnchanged ==
    UNCHANGED <<json_data, num_uuids, question_counts, total_uuids_needed,
                chunk_size, uuid_mapping, modified_json_data, mapping0,
                substituted, runs>>

\* app.py:21-25: status 200, the lines of the body are appended
RequestOk ==
    /\ LoopEntered
    /\ \E new_uuids \in Bodies(BatchSize) :
          uuid_list' = uuid_list \o new_uuids
    /\ requests' = Append(requests, BatchSize)
    /\ UNCHANGED <<pc, uuid_batch, fetch_failed, batch0>>
    /\ FetchUnchanged

\* app.py:26-28: any other status
RequestBadStatus ==
    /\ LoopEntered
    /\ requests' = Append(requests, BatchSize)
    /\ fetch_failed' = TRUE
    /\ uuid_batch' = FailureResult(uuid_list)
    /\ batch0' = uuid_batch'
    /\ pc' = "fetched"
    /\ UNCHANGED uuid_list
    /\ FetchUnchanged

\* app.py:29-31: requests.get (or reading the response) raises
RequestException ==
    /\ LoopEntered
    /\ requests' = Append(requests, BatchSize)
    /\ fetch_failed' = TRUE
    /\ uuid_batch' = FailureResult(uuid_list)
    /\ batch0' = uuid_batch'
    /\ pc' = "fetched"
    /\ UNCHANGED uuid_list
    /\ FetchUnchanged

\* app.py:19 and app.py:33: the loop condition is false, return uuid_list
FetchReturn ==
    /\ pc = "fetch_loop"
    /\ ~(Len(uuid_list) < total_uuids_needed)
    /\ uuid_batch' = uuid_list
    /\ batch0' = uuid_list
    /\ pc' = "fetched"
    /\ UNCHANGED <<uuid_list, requests, fetch_failed>>
    /\ FetchUnchanged

----------------------------------------------------------------------------
(* The Streamlit script, app.py:71-127 *)

\* app.py:77-96: a file is uploaded and the script reruns to the button; the
\* locals of the run before are gone, st.session_state is kept
Upload ==
    /\ pc \in {"idle", "shown"}
    /\ \E d \in Docs :
          /\ json_data' = d
          /\ num_uuids' = CountUuids(d)
          /\ question_counts' = count_questions(d)
    /\ modified_json_data' = NoValue
    /\ uuid_list' = <<>>
    /\ uuid_batch' = <<>>
    /\ requests' = <<>>
    /\ fetch_failed' = FALSE
    /\ batch0' = <<>>
    /\ mapping0' = uuid_mapping
    /\ substituted' = FALSE
    /\ pc' = "idle"
    /\ UNCHANGED <<total_uuids_needed, chunk_size, uuid_mapping, runs>>

\* app.py:99-101: the button is clicked, get_batch_of_uuids is called
ClickProcess ==
    /\ pc \in {"idle", "shown"}
    /\ json_data # NoValue
    /\ runs < MaxRuns
    /\ runs' = runs + 1
    /\ total_uuids_needed' = num_uuids
    /\ chunk_size' = ProcessChunkSize
    /\ uuid_list' = <<>>
    /\ requests' = <<>>
    /\ fetch_failed' = FALSE
    /\ mapping0' = uuid_mapping
    /\ substituted' = FALSE
    /\ modified_json_data' = NoValue
    /\ pc' = "fetch_loop"
    /\ UNCHANGED <<json_data, num_uuids, question_counts, uuid_batch,
                   uuid_mapping, batch0>>

\* a plausible slip: a list longer than asked for is accepted
CountMismatch_TooFewOnly(batch, n) == Len(batch) < n

\* app.py:103
CountMismatch(batch, n) == Len(batch) # n

\* app.py:103-104, then app.py:124-127: the error, and the table of the log
ProcessError ==
    /\ pc = "fetched"
    /\ CountMismatch(uuid_batch, num_uuids)
    /\ pc' = "shown"
    /\ UNCHANGED <<json_data, num_uuids, question_counts, total_uuids_needed,
                   chunk_size, uuid_list, uuid_batch, uuid_mapping,
                   modified_json_data, requests, fetch_failed, batch0, mapping0,
                   substituted, runs>>

\* app.py:105-121, then app.py:124-127: the log is cleared, the document is
\* walked, the output is offered
ProcessReplace ==
    /\ pc = "fetched"
    /\ ~CountMismatch(uuid_batch, num_uuids)
    /\ LET r == replace_uuids_recursively(json_data, uuid_batch, <<>>)
       IN  /\ modified_json_data' = r.ret
           /\ uuid_batch' = r.uuid_batch
           /\ uuid_mapping' = r.uuid_mapping
    /\ substituted' = TRUE
    /\ pc' = "shown"
    /\ UNCHANGED <<json_data, num_uuids, question_counts, total_uuids_needed,
                   chunk_size, uuid_list, requests, fetch_failed, batch0,
                   mapping0, runs>>

\* src/app.py:11-13 and the script before any upload
Init ==
    /\ pc = "idle"
    /\ json_data = NoValue
    /\ num_uuids = 0
    /\ question_counts = <<>>
    /\ total_uuids_needed = 0
    /\ chunk_size = ProcessChunkSize
    /\ uuid_list = <<>>
    /\ uuid_batch = <<>>
    /\ uuid_mapping = <<>>
    /\ modified_json_data = NoValue
    /\ requests = <<>>
    /\ fetch_failed = FALSE
    /\ batch0 = <<>>
    /\ mapping0 = <<>>
    /\ substituted = FALSE
    /\ runs = 0

Next ==
    \/ Upload
    \/ ClickProcess
    \/ RequestOk
    \/ RequestBadStatus
    \/ RequestException
    \/ FetchReturn
    \/ ProcessError
    \/ ProcessReplace

Spec == Init /\ [][Next]_vars

----------------------------------------------------------------------------
(* get_batch_of_uuids called with every total and chunk size in the bounds *)

InitFetch ==
    /\ pc = "fetch_loop"
    /\ total_uuids_needed \in 0..MaxTotal
    /\ chunk_size \in 1..MaxChunk
    /\ json_data = NoValue
    /\ num_uuids = 0
    /\ question_counts = <<>>
    /\ uuid_list = <<>>
    /\ uuid_batch = <<>>
    /\ uuid_mapping = <<>>
    /\ modified_json_data = NoValue
    /\ requests = <<>>
    /\ fetch_failed = FALSE
    /\ batch0 = <<>>
    /\ mapping0 = <<>>
    /\ substituted = FALSE
    /\ runs = 0

NextFetch ==
    \/ RequestOk
    \/ RequestBadStatus
    \/ RequestException
    \/ FetchReturn

SpecFetch == InitFetch /\ [][NextFetch]_vars

----------------------------------------------------------------------------
(* replace_uuids_recursively called with every document, pool and log in   *)
(* the bounds                                                              *)

InitSub ==
    /\ pc = "sub_call"
    /\ json_data \in Docs
    /\ uuid_batch \in Pools
    /\ uuid_mapping \in PriorLogs
    /\ batch0 = uuid_batch
    /\ mapping0 = uuid_mapping
    /\ num_uuids = 0
    /\ question_counts = <<>>
    /\ total_uuids_needed = 0
    /\ chunk_size = ProcessChunkSize
    /\ uuid_list = <<>>
    /\ modified_json_data = NoValue
    /\ requests = <<>>
    /\ fetch_failed = FALSE
    /\ substituted = FALSE
    /\ runs = 0

\* modified = replace_uuids_recursively(data, uuid_batch, uuid_mapping)
CallReplace ==
    /\ pc = "sub_call"
    /\ LET r == replace_uuids_recursively(json_data, uuid_batch, uuid_mapping)
       IN  /\ modified_json_data' = r.ret
           /\ uuid_batch' = r.uuid_batch
           /\ uuid_mapping' = r.uuid_mapping
    /\ substituted' = TRUE
    /\ pc' = "sub_done"
    /\ UNCHANGED <<json_data, num_uuids, question_counts, total_uuids_needed,
                   chunk_size, uuid_list, requests, fetch_failed, batch0,
                   mapping0, runs>>

NextSub == CallReplace

SpecSub == InitSub /\ [][NextSub]_vars

----------------------------------------------------------------------------
(* What the claims speak of, stated apart from the walk itself *)

\* the string values of a document in depth-first order (keys are not values)
RECURSIVE ValueStrings(_)
ValueStrings(v) ==
    IF v.kind = "str" THEN <<v.s>>
    ELSE IF v.kind \in {"dict", "list"}
         THEN Concat([i \in 1..Len(v.items) |-> ValueStrings(v.items[i])])
    ELSE <<>>

\* the UUID matches of a document in depth-first order, left to right in a string
WalkMatches(v) ==
    Concat([i \in 1..Len(ValueStrings(v)) |-> FindAll(ValueStrings(v)[i])])

\* s from position i on, its matches replaced by reps in order while reps last
RECURSIVE SplicedFrom(_, _, _)
SplicedFrom(s, i, reps) ==
    IF i > Len(s) THEN <<>>
    ELSE IF MatchAt(s, i)
         THEN (IF reps # <<>> THEN Head(reps) ELSE SubSeq(s, i, i + PatternLen - 1))
              \o SplicedFrom(s, i + PatternLen, IF reps # <<>> THEN Tail(reps) ELSE reps)
         ELSE <<s[i]>> \o SplicedFrom(s, i + 1, reps)

\* the strings ss, their matches replaced by reps in order while reps last
RECURSIVE SplicedStrings(_, _)
SplicedStrings(ss, reps) ==
    IF ss = <<>> THEN <<>>
    ELSE LET used == Min(Len(FindAll(Head(ss))), Len(reps))
         IN  <<SplicedFrom(Head(ss), 1, reps)>>
             \o SplicedStrings(Tail(ss), SubSeq(reps, used + 1, Len(reps)))

\* same kinds, same keys in the same order, same lengths, same non-string scalars
RECURSIVE SameStructure(_, _)
SameStructure(a, b) ==
    /\ a.kind = b.kind
    /\ a.kind \in {"num", "bool", "null"} => a = b
    /\ a.kind = "dict" => a.keys = b.keys
    /\ a.kind \in {"dict", "list"} =>
          /\ Len(a.items) = Len(b.items)
          /\ \A i \in 1..Len(a.items) : SameStructure(a.items[i], b.items[i])

\* the records the walk added to the log it was given
Gained == SubSeq(uuid_mapping, Len(mapping0) + 1, Len(uuid_mapping))

NMatches == Len(WalkMatches(json_data))

CeilDiv(a, b) == (a + b - 1) \div b

----------------------------------------------------------------------------
(* Claims about replace_uuids_recursively, checked under SpecSub *)

\* C1: with a pool of at least N entries for the N matches of the document,
\* every match is replaced by a pool entry and the output has the structure of
\* the input: same keys in the same order (a key holding a UUID token is kept),
\* same lengths, same non-string scalars; the strings differ only in the tokens.
C1_AllReplacedStructureKept ==
    (pc = "sub_done" /\ Len(batch0) >= NMatches) =>
        /\ SameStructure(json_data, modified_json_data)
        /\ ValueStrings(modified_json_data) =
              SplicedStrings(ValueStrings(json_data), SubSeq(batch0, 1, NMatches))
        /\ \A i \in 1..NMatches : Gained[i].new = batch0[i]

C1_Witness ==
    /\ pc = "sub_done"
    /\ json_data = Dict(<<KeyUuid, KeyK>>, <<List(<<Str(UuidB), Num(1)>>), Str(UuidA)>>)
    /\ batch0 = <<FreshA, FreshB>>
    /\ modified_json_data =
          Dict(<<KeyUuid, KeyK>>, <<List(<<Str(FreshA), Num(1)>>), Str(FreshB)>>)

\* C2 as stated: with a pool of M < N entries the first M matches are replaced,
\* the other N-M keep their value, and the log gains N records, M of them with
\* original and replacement different and N-M with them equal.
C2_Original ==
    (pc = "sub_done" /\ Len(batch0) < NMatches) =>
        /\ ValueStrings(modified_json_data) =
              SplicedStrings(ValueStrings(json_data), batch0)
        /\ Len(Gained) = NMatches
        /\ Cardinality({i \in 1..Len(Gained) : Gained[i].original # Gained[i].new})
              = Len(batch0)
        /\ Cardinality({i \in 1..Len(Gained) : Gained[i].original = Gained[i].new})
              = NMatches - Len(batch0)

\* C2 amended: with a pool of M < N entries the first M matches are replaced by
\* the M pool entries in order, the other N-M keep their value, and the log
\* gains N records: the first M pair each match with the pool entry it took
\* (different from the match unless the pool entry equals it), the last N-M
\* have the replacement equal to the original.
C2_ExhaustedPool ==
    (pc = "sub_done" /\ Len(batch0) < NMatches) =>
        /\ ValueStrings(modified_json_data) =
              SplicedStrings(ValueStrings(json_data), batch0)
        /\ Len(Gained) = NMatches
        /\ \A i \in 1..NMatches :
              /\ Gained[i].original = WalkMatches(json_data)[i]
              /\ Gained[i].new = IF i <= Len(batch0) THEN batch0[i]
                                                      ELSE Gained[i].original
        /\ uuid_batch = <<>>

C2_Witness ==
    /\ pc = "sub_done"
    /\ json_data = List(<<Str(UuidA), Str(UuidB), Str(UuidA)>>)
    /\ batch0 = <<FreshA>>
    /\ modified_json_data = List(<<Str(FreshA), Str(UuidB), Str(UuidA)>>)
    /\ Gained = <<MappingRecord(UuidA, FreshA), MappingRecord(UuidB, UuidB),
                  MappingRecord(UuidA, UuidA)>>

\* C4: the i-th match in depth-first order takes the i-th entry of the pool as
\* it stood at the start, the i-th record added to the log is that pair, the
\* records already in the log stay, and the pool is left with exactly the
\* entries no match took (so no entry serves two matches).
C4_FifoTraversalOrder ==
    pc = "sub_done" =>
        LET taken == Min(NMatches, Len(batch0))
        IN  /\ Len(Gained) >= taken
            /\ \A i \in 1..taken :
                  Gained[i] = MappingRecord(WalkMatches(json_data)[i], batch0[i])
            /\ ValueStrings(modified_json_data) =
                  SplicedStrings(ValueStrings(json_data), SubSeq(batch0, 1, taken))
            /\ SubSeq(uuid_mapping, 1, Len(mapping0)) = mapping0
            /\ uuid_batch = SubSeq(batch0, taken + 1, Len(batch0))

C4_Witness ==
    /\ pc = "sub_done"
    /\ json_data = Dict(<<KeyK, TopicA, TopicB>>,
                        <<Bool(FALSE), List(<<>>), Str(TwoInOne)>>)
    /\ batch0 = <<FreshB, FreshA, UuidA>>
    /\ mapping0 # <<>>
    /\ Gained = <<MappingRecord(UuidA, FreshB), MappingRecord(UuidB, FreshA)>>
    /\ uuid_batch = <<UuidA>>

\* C7: count_questions gives the same result on the output of the walk as on
\* its input, whatever the pool.
C7_CountPreserved ==
    pc = "sub_done" =>
        count_questions(modified_json_data) = count_questions(json_data)

C7_Witness ==
    /\ pc = "sub_done"
    /\ json_data = Dict(<<TopicA, TopicB>>,
                        <<List(<<Str(UuidA)>>), List(<<Str(Plain), Str(UuidB)>>)>>)
    /\ modified_json_data # json_data
    /\ count_questions(modified_json_data) = <<Entry(TopicA, 1), Entry(TopicB, 2)>>

----------------------------------------------------------------------------
(* Claims about get_batch_of_uuids, checked under SpecFetch *)

\* C3: when a chunk request fails, at any chunk position, the call returns the
\* empty list; a returned list is never a non-empty list shorter than the total.
C3_FailureReturnsEmpty ==
    pc = "fetched" =>
        /\ fetch_failed => uuid_batch = <<>>
        /\ uuid_batch = <<>> \/ Len(uuid_batch) >= total_uuids_needed

C3_Witness ==
    /\ pc = "fetched"
    /\ fetch_failed
    /\ Len(requests) = 3
    /\ Len(uuid_list) = 2
    /\ total_uuids_needed = 3
    /\ uuid_batch = <<>>

\* C9 as stated: whatever the remote answers, the call issues at most
\* ceil(T/C) requests, each for at most C values and at most T, and none when
\* T = 0.
C9_Original ==
    /\ Len(requests) <= CeilDiv(total_uuids_needed, chunk_size)
    /\ \A i \in 1..Len(requests) :
          requests[i] <= chunk_size /\ requests[i] <= total_uuids_needed
    /\ total_uuids_needed = 0 => requests = <<>>

----------------------------------------------------------------------------
(* Claims about the Process handler and count_questions, checked under Spec *)

\* C5: a run whose fetched list has not exactly num_uuids entries ends with
\* the error: the walk is not called, no output document exists and the log is
\* as it was at the click.
C5_NoSubstitutionOnMismatch ==
    (pc = "shown" /\ Len(batch0) # num_uuids) =>
        /\ ~substituted
        /\ modified_json_data = NoValue
        /\ uuid_mapping = mapping0

C5_Witness ==
    /\ pc = "shown"
    /\ Len(batch0) > num_uuids
    /\ num_uuids > 0
    /\ ~fetch_failed
    /\ ~substituted
    /\ mapping0 # <<>>

\* C6 as stated: after any Process run, failed or not, the session log holds
\* only the records that run appended.
C6_Original ==
    pc = "shown" =>
        uuid_mapping =
            IF substituted
            THEN [i \in 1..NMatches |->
                     MappingRecord(WalkMatches(json_data)[i], batch0[i])]
            ELSE <<>>

\* C8: count_questions gives one entry per list-valued key, with the length of
\* that list, for a mapping with a list-valued entry; Total Questions with the
\* length for a document that is a list; Total Questions 0 for any other.
C8_CountPolicy ==
    json_data # NoValue =>
        LET lists == {i \in 1..Len(json_data.items) :
                         json_data.kind = "dict" /\ json_data.items[i].kind = "list"}
        IN  IF lists # {}
            THEN /\ Len(question_counts) = Cardinality(lists)
                 /\ \A i \in lists : \E j \in 1..Len(question_counts) :
                       question_counts[j] =
                           Entry(json_data.keys[i], Len(json_data.items[i].items))
            ELSE IF json_data.kind = "list"
                 THEN question_counts = <<Entry(TotalQuestions, Len(json_data.items))>>
                 ELSE question_counts = <<Entry(TotalQuestions, 0)>>

C8_Witness ==
    /\ json_data = Dict(<<KeyUuid, KeyK>>, <<List(<<Str(UuidB), Num(1)>>), Str(UuidA)>>)
    /\ question_counts = <<Entry(KeyUuid, 2)>>

\* C10: in a run that reaches the walk the pool is never found empty: the
\* matches the walk meets are at most the pool's entries at the start, every
\* record of the run pairs a match with the pool entry it took, and the pool
\* is left with num_uuids minus that many entries.
C10_PoolNeverExhausted ==
    (pc = "shown" /\ substituted) =>
        /\ Len(batch0) = num_uuids
        /\ NMatches <= Len(batch0)
        /\ Len(uuid_mapping) = NMatches
        /\ \A i \in 1..NMatches :
              uuid_mapping[i] = MappingRecord(WalkMatches(json_data)[i], batch0[i])
        /\ Len(uuid_batch) = num_uuids - NMatches

C10_Witness ==
    /\ pc = "shown"
    /\ substituted
    /\ json_data = Dict(<<KeyUuid>>, <<Str(UuidA)>>)
    /\ num_uuids = 2
    /\ uuid_mapping = <<MappingRecord(UuidA, FreshA)>>
    /\ uuid_batch = <<FreshA>>

====
